---- MODULE Spec2Model ----
(***************************************************************************)
(* Model of carved4/go-native-syscall:                                     *)
(*   pkg/obf/obf.go          DBJ2 / FNV-1a hashing, the hash cache and the *)
(*                           collision detector, with their two RWMutexes  *)
(*   pkg/unhook/do_syscall.S the variable-arity syscall trampoline         *)
(*                                                                         *)
(* TLC integers are 32-bit signed, so a uint32 is kept as two 16-bit limbs *)
(* <<hi, lo>> and a 64-bit machine word as four 16-bit limbs, most         *)
(* significant first.  All arithmetic is done limb-wise with carries, so   *)
(* wraparound is exactly that of the hardware.                             *)
(***************************************************************************)
EXTENDS Integers, Sequences, FiniteSets, TLC

VARIABLES
    \* ---- pure hash functions (obf.go: DBJ2Hash, FNV1AHash, GetHashWithAlgorithm)
    buffer,        \* the input byte sequence
    algorithm,     \* the algorithm name handed to GetHashWithAlgorithm
    called,        \* which function was applied: "none", "DBJ2Hash", ...
    result,        \* its uint32 result
    \* ---- the resolver's shared state (obf.go:37-40)
    HashCache,          \* map[string]uint32
    hashCacheMutex,     \* sync.RWMutex guarding HashCache
    collisionDetector,  \* map[uint32]string
    collisionMutex,     \* sync.RWMutex guarding collisionDetector
    debugLog,           \* collision diagnostics emitted since the last reset, per new string
    \* ---- each goroutine's position and locals
    pc,            \* where the goroutine is
    s,             \* GetHash / GetHashWithAlgorithm: the string argument
    alg,           \* GetHashWithAlgorithm: the algorithm argument
    hash,          \* GetHash: the local `hash`; detectHashCollision: its parameter
    ok,            \* GetHash: `ok` of the cache lookup
    existingString,\* detectHashCollision: the registered string found
    stats,         \* GetHashCacheStats: uniqueHashes, totalEntries, collisions
    ret,           \* the value the call returns
    \* ---- history of the current epoch (the time since the last reset)
    clean,         \* the epoch began with both maps empty and no GetHash in flight
    resolved,      \* the names GetHash was called with in this epoch
    prior,         \* the names GetHash was called with in earlier epochs
    \* ---- the collision scenario
    todo,          \* per goroutine: the strings it is still to resolve
    \* ---- do_syscall (do_syscall.S)
    regs,          \* the general-purpose registers the routine touches, and rsp
    flags,         \* ZF, SF, OF as `sub` leaves them
    mem,           \* the stack memory around rsp, by address
    ip,            \* the instruction about to execute
    argw,          \* the call's argument words a0..a(N-1), as the caller passed them
    entry          \* the registers as they were at entry

hvars == <<buffer, algorithm, called, result>>
shared == <<HashCache, hashCacheMutex, collisionDetector, collisionMutex, debugLog>>
locals == <<pc, s, alg, hash, ok, existingString, stats, ret>>
history == <<clean, resolved, prior>>
rvars == <<shared, locals, history, todo>>
svars == <<regs, flags, mem, ip, argw, entry>>
vars == <<hvars, rvars, svars>>

----------------------------------------------------------------------------
(* uint32 arithmetic on <<hi, lo>> limbs                                   *)

Limb == 2^16

\* uint32(n) for a small natural n (obf.go:16, :30, :88, :100)
U32(n) == <<(n \div Limb) % Limb, n % Limb>>

\* a + b in uint32, wrapping (obf.go:30)
Add32(a, b) ==
    LET lo == a[2] + b[2]
    IN  <<(a[1] + b[1] + (lo \div Limb)) % Limb, lo % Limb>>

\* a << 5 in uint32 (obf.go:30)
Shl5(a) ==
    LET lo == a[2] * 32
    IN  <<(a[1] * 32 + (lo \div Limb)) % Limb, lo % Limb>>

\* bitwise xor of two naturals below 2^16
RECURSIVE XorNat(_, _)
XorNat(x, y) ==
    IF x = 0 THEN y
    ELSE IF y = 0 THEN x
    ELSE (((x % 2) + (y % 2)) % 2) + (2 * XorNat(x \div 2, y \div 2))

\* a ^ b in uint32 (obf.go:100)
Xor32(a, b) == <<XorNat(a[1], b[1]), XorNat(a[2], b[2])>>

\* a * 16777619 in uint32; 16777619 = 2^24 + 403 (obf.go:85, :101)
MulPrime32(a) ==
    LET lo == a[2] * 403
        hi == a[1] * 403 + (lo \div Limb) + (a[2] % 256) * 256
    IN  <<hi % Limb, lo % Limb>>

----------------------------------------------------------------------------
(* obf.go: DBJ2Hash, FNV1AHash                                             *)

\* DBJ2Hash: if b == 0 { continue }  (obf.go:19-21)
SkipByteNever(b) == FALSE
SkipByte(b) == b = 0

\* DBJ2Hash: if b >= 'a' { b -= 0x20 }  (obf.go:24-26); b is a uint8
FoldByteIdentity(b) == b
FoldByte(b) == IF b >= 97 THEN b - 32 ELSE b

\* hash = ((hash << 5) + hash) + uint32(b)  (obf.go:30)
DBJ2Step(acc, b) == Add32(Add32(Shl5(acc), acc), U32(b))

\* the loop of DBJ2Hash from index i with accumulator hash (obf.go:18-31)
RECURSIVE DBJ2Loop(_, _, _)
DBJ2Loop(buf, i, acc) ==
    IF i > Len(buf) THEN acc
    ELSE IF SkipByte(buf[i]) THEN DBJ2Loop(buf, i + 1, acc)
    ELSE DBJ2Loop(buf, i + 1, DBJ2Step(acc, FoldByte(buf[i])))

\* func DBJ2Hash(buffer []byte) uint32  (obf.go:15-34)
DBJ2Hash(buf) == DBJ2Loop(buf, 1, U32(5381))

\* func DBJ2HashStr(s string) uint32  (obf.go:10-12); a string is its bytes
DBJ2HashStr(str) == DBJ2Hash(str)

\* FNV1AHash: if b == 0 { continue }  (obf.go:91-93)
FNV1ASkipByte(b) == b = 0

\* FNV1AHash: if b >= 'a' { b -= 0x20 }  (obf.go:96-98)
FNV1AFoldByte(b) == IF b >= 97 THEN b - 32 ELSE b

\* hash ^= uint32(b); hash *= fnv1aPrime  (obf.go:100-101)
FNV1AStepMultiplyFirst(acc, b) == Xor32(MulPrime32(acc), U32(b))
FNV1AStep(acc, b) == MulPrime32(Xor32(acc, U32(b)))

\* fnv1aOffset = 2166136261 = 0x811C9DC5  (obf.go:84, :88)
fnv1aOffset == <<33052, 40389>>

\* the loop of FNV1AHash (obf.go:90-102)
RECURSIVE FNV1ALoop(_, _, _)
FNV1ALoop(buf, i, acc) ==
    IF i > Len(buf) THEN acc
    ELSE IF FNV1ASkipByte(buf[i]) THEN FNV1ALoop(buf, i + 1, acc)
    ELSE FNV1ALoop(buf, i + 1, FNV1AStep(acc, FNV1AFoldByte(buf[i])))

\* func FNV1AHash(buffer []byte) uint32  (obf.go:82-105)
FNV1AHash(buf) == FNV1ALoop(buf, 1, fnv1aOffset)

\* func GetHashWithAlgorithm(s, algorithm)  (obf.go:108-117)
GetHashWithAlgorithmSwapped(str, a) ==
    CASE a = "dbj2" -> FNV1AHash(str)
      [] OTHER      -> DBJ2HashStr(str)
GetHashWithAlgorithm(str, a) ==
    CASE a = "fnv1a" -> FNV1AHash(str)
      [] a = "dbj2"  -> DBJ2HashStr(str)
      [] OTHER       -> DBJ2HashStr(str)

----------------------------------------------------------------------------
(* 64-bit words as four 16-bit limbs, most significant first               *)

\* the word of a natural below 2^31
W(n) == <<0, 0, (n \div Limb) % Limb, n % Limb>>

\* a + b mod 2^64
Add64(a, b) ==
    LET s4 == a[4] + b[4]
        s3 == a[3] + b[3] + (s4 \div Limb)
        s2 == a[2] + b[2] + (s3 \div Limb)
        s1 == a[1] + b[1] + (s2 \div Limb)
    IN  <<s1 % Limb, s2 % Limb, s3 % Limb, s4 % Limb>>

Not64(a) == <<Limb - 1 - a[1], Limb - 1 - a[2], Limb - 1 - a[3], Limb - 1 - a[4]>>

\* a - b mod 2^64
Sub64(a, b) == Add64(a, Add64(Not64(b), W(1)))

IsZero64(a) == a = <<0, 0, 0, 0>>
Sign64(a) == a[1] >= 2^15

\* the low doubleword, zero-extended: what a write to a 32-bit register leaves
Lo32(a) == <<0, 0, a[3], a[4]>>

\* base + off for a small displacement off
Disp(base, off) == IF off >= 0 THEN Add64(base, W(off)) ELSE Sub64(base, W(-off))

----------------------------------------------------------------------------
(* do_syscall.S.  The caller follows the Windows x64 convention:           *)
(* rcx = identifier, rdx = argument count, r8 = a0, r9 = a1, and a2, a3,   *)
(* ... at [rsp+0x28], [rsp+0x30], ... above the return address and the     *)
(* 32-byte home space.                                                     *)

MaxArgs == 6

\* the values argument words are drawn from
ArgWords == {W(4369), <<43690, 0, 48059, 52428>>}

\* rcx at entry: the identifier in the low 32 bits, anything above them
RcxValues == {W(24), <<57005, 48879, 0, 85>>}

\* counts that are negative as signed 64-bit words: -1, -3, and -2^63
NegativeCounts ==
    {<<65535, 65535, 65535, 65535>>, <<65535, 65535, 65535, 65533>>, <<32768, 0, 0, 0>>}

\* what the kernel may leave in rax
KernelResults == {W(0), <<0, 0, 49152, 5>>}

\* rsp at entry, and the stack slots of the model: [rsp-0x10] .. above the
\* last argument
EntryRsp == <<0, 192, 1, 61440>>
Slot(k) == Disp(EntryRsp, 8 * k)
SlotRange == -2 .. (MaxArgs + 4)
StackAddrs == {Slot(k) : k \in SlotRange}

\* contents that are not arguments: a different word in every place
Junk(k) == <<0, 32767, 0, 100 + k>>
ReturnAddress == <<0, 32758, 4660, 22136>>
CallerRsi == <<0, 0, 1, 4096>>
CallerRdi == <<0, 0, 2, 8192>>

\* the caller's frame for arguments a (a[1] is a0)
EntryStack(a) ==
    [addr \in StackAddrs |->
        LET k == CHOOSE j \in SlotRange : Slot(j) = addr
        IN  IF k = 0 THEN ReturnAddress
            ELSE IF k >= 5 /\ k - 2 <= Len(a) THEN a[k - 2]
            ELSE Junk(k)]

EntryRegs(rcx, count, a) ==
    [rax |-> Junk(-10), rcx |-> rcx, rdx |-> count,
     rsi |-> CallerRsi, rdi |-> CallerRdi,
     r8  |-> IF Len(a) >= 1 THEN a[1] ELSE Junk(-11),
     r9  |-> IF Len(a) >= 2 THEN a[2] ELSE Junk(-12),
     r10 |-> Junk(-13), r11 |-> Junk(-14), rsp |-> EntryRsp]

NoFlags == [zf |-> FALSE, sf |-> FALSE, of |-> FALSE]

\* the state at the first instruction, for every call of the model
SyscallEntry ==
    /\ \E rcx \in RcxValues :
         \/ \E n \in 0..MaxArgs : \E a \in [1..n -> ArgWords] :
                /\ argw = a
                /\ entry = EntryRegs(rcx, W(n), a)
         \/ \E c \in NegativeCounts :
                /\ argw = <<>>
                /\ entry = EntryRegs(rcx, c, <<>>)
    /\ regs = entry
    /\ mem = EntryStack(argw)
    /\ flags = NoFlags
    /\ ip = "save_rsi"

SyscallIdle ==
    /\ regs = EntryRegs(W(0), W(0), <<>>)
    /\ entry = regs
    /\ argw = <<>>
    /\ mem = EntryStack(<<>>)
    /\ flags = NoFlags
    /\ ip = "returned"

\* mov [rsp - 0x8], rsi  (do_syscall.S:5)
Save_Rsi ==
    /\ ip = "save_rsi"
    /\ mem' = [mem EXCEPT ![Disp(regs.rsp, -8)] = regs.rsi]
    /\ ip' = "save_rdi"
    /\ UNCHANGED <<regs, flags, argw, entry>>

\* mov [rsp - 0x10], rdi  (do_syscall.S:6)
Save_Rdi ==
    /\ ip = "save_rdi"
    /\ mem' = [mem EXCEPT ![Disp(regs.rsp, -16)] = regs.rdi]
    /\ ip' = "mov_eax"
    /\ UNCHANGED <<regs, flags, argw, entry>>

\* mov eax, ecx  (do_syscall.S:8)
Mov_Eax_Ecx ==
    /\ ip = "mov_eax"
    /\ regs' = [regs EXCEPT !.rax = Lo32(regs.rcx)]
    /\ ip' = "mov_rcx"
    /\ UNCHANGED <<mem, flags, argw, entry>>

\* mov rcx, rdx  (do_syscall.S:9)
Mov_Rcx_Rdx ==
    /\ ip = "mov_rcx"
    /\ regs' = [regs EXCEPT !.rcx = regs.rdx]
    /\ ip' = "mov_r10"
    /\ UNCHANGED <<mem, flags, argw, entry>>

\* mov r10, r8  (do_syscall.S:11)
Mov_R10_R8 ==
    /\ ip = "mov_r10"
    /\ regs' = [regs EXCEPT !.r10 = regs.r8]
    /\ ip' = "mov_rdx"
    /\ UNCHANGED <<mem, flags, argw, entry>>

\* mov rdx, r9  (do_syscall.S:12)
Mov_Rdx_R9 ==
    /\ ip = "mov_rdx"
    /\ regs' = [regs EXCEPT !.rdx = regs.r9]
    /\ ip' = "load_r8"
    /\ UNCHANGED <<mem, flags, argw, entry>>

\* mov r8, [rsp + 0x28]  (do_syscall.S:14)
Load_R8 ==
    /\ ip = "load_r8"
    /\ regs' = [regs EXCEPT !.r8 = mem[Disp(regs.rsp, 40)]]
    /\ ip' = "load_r9"
    /\ UNCHANGED <<mem, flags, argw, entry>>

\* mov r9, [rsp + 0x30]  (do_syscall.S:15)
Load_R9 ==
    /\ ip = "load_r9"
    /\ regs' = [regs EXCEPT !.r9 = mem[Disp(regs.rsp, 48)]]
    /\ ip' = "sub_rcx"
    /\ UNCHANGED <<mem, flags, argw, entry>>

\* sub rcx, 0x4  (do_syscall.S:17): the difference, and ZF, SF, OF
Sub_Rcx_4 ==
    /\ ip = "sub_rcx"
    /\ LET d == Sub64(regs.rcx, W(4))
       IN  /\ regs' = [regs EXCEPT !.rcx = d]
           /\ flags' = [zf |-> IsZero64(d),
                        sf |-> Sign64(d),
                        of |-> Sign64(regs.rcx) /\ ~Sign64(d)]
    /\ ip' = "jle"
    /\ UNCHANGED <<mem, argw, entry>>

\* jle skip  (do_syscall.S:18): taken when ZF = 1 or SF # OF
JleTakenUnsigned(f) == f.zf
JleTaken(f) == f.zf \/ (f.sf # f.of)

Jle_Skip ==
    /\ ip = "jle"
    /\ ip' = IF JleTaken(flags) THEN "syscall" ELSE "lea_rsi"
    /\ UNCHANGED <<regs, mem, flags, argw, entry>>

\* lea rsi, [rsp + 0x38]  (do_syscall.S:20)
Lea_RsiLow ==
    /\ ip = "lea_rsi"
    /\ regs' = [regs EXCEPT !.rsi = Disp(regs.rsp, 48)]
    /\ ip' = "lea_rdi"
    /\ UNCHANGED <<mem, flags, argw, entry>>
Lea_Rsi ==
    /\ ip = "lea_rsi"
    /\ regs' = [regs EXCEPT !.rsi = Disp(regs.rsp, 56)]
    /\ ip' = "lea_rdi"
    /\ UNCHANGED <<mem, flags, argw, entry>>

\* lea rdi, [rsp + 0x28]  (do_syscall.S:21)
Lea_Rdi ==
    /\ ip = "lea_rdi"
    /\ regs' = [regs EXCEPT !.rdi = Disp(regs.rsp, 40)]
    /\ ip' = "rep_movsq"
    /\ UNCHANGED <<mem, flags, argw, entry>>

\* rep movsq  (do_syscall.S:23), one iteration: [rdi] = [rsi], both
\* pointers advance by 8 (the direction flag is clear on entry), rcx counts down
Rep_Movsq_Copy ==
    /\ ip = "rep_movsq"
    /\ ~IsZero64(regs.rcx)
    /\ mem' = [mem EXCEPT ![regs.rdi] = mem[regs.rsi]]
    /\ regs' = [regs EXCEPT !.rsi = Disp(@, 8), !.rdi = Disp(@, 8), !.rcx = Sub64(@, W(1))]
    /\ UNCHANGED <<ip, flags, argw, entry>>

\* rep movsq  (do_syscall.S:23) ends when rcx is 0
Rep_Movsq_End ==
    /\ ip = "rep_movsq"
    /\ IsZero64(regs.rcx)
    /\ ip' = "syscall"
    /\ UNCHANGED <<regs, mem, flags, argw, entry>>

\* syscall  (do_syscall.S:25): the kernel leaves its result in rax and
\* destroys rcx and r11; it does not write the user stack
Syscall ==
    /\ ip = "syscall"
    /\ \E r \in KernelResults :
           regs' = [regs EXCEPT !.rax = r, !.rcx = Junk(-20), !.r11 = Junk(-21)]
    /\ ip' = "restore_rsi"
    /\ UNCHANGED <<mem, flags, argw, entry>>

\* mov rsi, [rsp - 0x8]  (do_syscall.S:27)
Restore_RsiFromRdiSlot ==
    /\ ip = "restore_rsi"
    /\ regs' = [regs EXCEPT !.rsi = mem[Disp(regs.rsp, -16)]]
    /\ ip' = "restore_rdi"
    /\ UNCHANGED <<mem, flags, argw, entry>>
Restore_Rsi ==
    /\ ip = "restore_rsi"
    /\ regs' = [regs EXCEPT !.rsi = mem[Disp(regs.rsp, -8)]]
    /\ ip' = "restore_rdi"
    /\ UNCHANGED <<mem, flags, argw, entry>>

\* mov rdi, [rsp - 0x10]  (do_syscall.S:28)
Restore_Rdi ==
    /\ ip = "restore_rdi"
    /\ regs' = [regs EXCEPT !.rdi = mem[Disp(regs.rsp, -16)]]
    /\ ip' = "ret"
    /\ UNCHANGED <<mem, flags, argw, entry>>

\* ret  (do_syscall.S:30): control goes to [rsp], rsp moves past it
Ret ==
    /\ ip = "ret"
    /\ regs' = [regs EXCEPT !.rsp = Disp(@, 8)]
    /\ ip' = "returned"
    /\ UNCHANGED <<mem, flags, argw, entry>>

----------------------------------------------------------------------------
(* The resolver: goroutines, strings, and the state at process start       *)

Threads == {1, 2}

\* "a" and "A" are distinct strings with the same DBJ2 hash; "b" has another
Names == {<<97>>, <<65>>, <<98>>}

\* algorithm names the goroutines pass to GetHashWithAlgorithm
Algs == {"fnv1a", "unknown"}

EmptyMap == [x \in {} |-> 0]

\* a sync.RWMutex: w is the goroutine that called Lock (0: none), held says
\* whether its Lock has returned, r is the set of goroutines holding RLock
FreeMutex == [w |-> 0, held |-> FALSE, r |-> {}]

NoHash == <<0, 0>>
NoStats == [uniqueHashes |-> 0, totalEntries |-> 0, collisions |-> 0]

\* var HashCache = make(...); var collisionDetector = make(...)  (obf.go:37-40)
ResolverInit ==
    /\ HashCache = EmptyMap
    /\ hashCacheMutex = FreeMutex
    /\ collisionDetector = EmptyMap
    /\ collisionMutex = FreeMutex
    /\ debugLog = [n \in Names |-> 0]
    /\ pc = [t \in Threads |-> "idle"]
    /\ s = [t \in Threads |-> <<>>]
    /\ alg = [t \in Threads |-> ""]
    /\ hash = [t \in Threads |-> NoHash]
    /\ ok = [t \in Threads |-> FALSE]
    /\ existingString = [t \in Threads |-> <<>>]
    /\ stats = [t \in Threads |-> NoStats]
    /\ ret = [t \in Threads |-> NoHash]
    /\ clean = TRUE
    /\ resolved = {}
    /\ prior = {}

\* outside the collision scenario no goroutine has a fixed list of calls
NoScenario == todo = [t \in Threads |-> <<>>]

HashIdle ==
    /\ buffer = <<>>
    /\ algorithm = ""
    /\ called = "none"
    /\ result = NoHash

----------------------------------------------------------------------------
(* The pure functions applied to bounded inputs                            *)

MaxLen == 3

\* byte values around every branch of the loop body: zero, the letters'
\* edges, the bytes just outside them, and the top of the byte range
ByteSample == {0, 1, 64, 65, 90, 91, 96, 97, 122, 123, 255}

RECURSIVE SeqsUpTo(_, _)
SeqsUpTo(S, n) ==
    IF n = 0 THEN {<<>>}
    ELSE LET shorter == SeqsUpTo(S, n - 1)
         IN  shorter \cup {Append(q, x) : q \in {r \in shorter : Len(r) = n - 1}, x \in S}

\* every single byte and every byte after a letter, plus all sampled sequences
Inputs ==
    SeqsUpTo(ByteSample, MaxLen)
        \cup {<<b>> : b \in 0..255}
        \cup {<<97, b>> : b \in 0..255}

AlgorithmNames == {"fnv1a", "dbj2", "", "unknown", "FNV1A"}

InitHash ==
    /\ ResolverInit
    /\ NoScenario
    /\ SyscallIdle
    /\ buffer \in Inputs
    /\ algorithm \in AlgorithmNames
    /\ called = "none"
    /\ result = NoHash

CallDBJ2Hash ==
    /\ called = "none"
    /\ called' = "DBJ2Hash"
    /\ result' = DBJ2Hash(buffer)
    /\ UNCHANGED <<buffer, algorithm>>

CallFNV1AHash ==
    /\ called = "none"
    /\ called' = "FNV1AHash"
    /\ result' = FNV1AHash(buffer)
    /\ UNCHANGED <<buffer, algorithm>>

CallGetHashWithAlgorithm ==
    /\ called = "none"
    /\ called' = "GetHashWithAlgorithm"
    /\ result' = GetHashWithAlgorithm(buffer, algorithm)
    /\ UNCHANGED <<buffer, algorithm>>

NextHash ==
    \/ CallDBJ2Hash /\ UNCHANGED <<rvars, svars>>
    \/ CallFNV1AHash /\ UNCHANGED <<rvars, svars>>
    \/ CallGetHashWithAlgorithm /\ UNCHANGED <<rvars, svars>>

SpecHash == InitHash /\ [][NextHash]_vars

----------------------------------------------------------------------------
(* Properties of the pure hash functions, checked under SpecHash           *)

IsU32(h) == h \in (0..(Limb - 1)) \X (0..(Limb - 1))

IsLower(b) == b \in 97..122

\* the reference hash of the specification: seed 5381, zero bytes skipped,
\* only 'a'..'z' folded to upper case, acc = acc * 33 + byte mod 2^32
RefFold(b) == IF IsLower(b) THEN b - 32 ELSE b

RefMul33(h) ==
    LET lo == h[2] * 33
    IN  <<(h[1] * 33 + (lo \div Limb)) % Limb, lo % Limb>>

RECURSIVE RefDBJ2(_)
RefDBJ2(str) ==
    IF str = <<>> THEN U32(5381)
    ELSE LET front == SubSeq(str, 1, Len(str) - 1)
             b     == str[Len(str)]
         IN  IF b = 0 THEN RefDBJ2(front)
             ELSE Add32(RefMul33(RefDBJ2(front)), U32(RefFold(b)))

ToUpperAZ(str) == [i \in 1..Len(str) |-> IF IsLower(str[i]) THEN str[i] - 32 ELSE str[i]]

NonZero(b) == b # 0
RemoveZeros(str) == SelectSeq(str, NonZero)

\* C2: for every byte sequence over 0..255, DBJ2Hash returns the reference
\* hash (seed 5381, zero bytes skipped, a byte folded to upper case exactly
\* when it is 'a'..'z', every other byte contributing its own value).
C2_DBJ2MatchesReference ==
    called = "DBJ2Hash" => result = RefDBJ2(buffer)

\* C6: the DBJ2 hash of str equals the DBJ2 hash of str with every 'a'..'z'
\* replaced by the corresponding upper-case letter.
C6_CaseInsensitive ==
    called = "DBJ2Hash" => result = DBJ2Hash(ToUpperAZ(buffer))

C6_Witness ==
    /\ called = "DBJ2Hash"
    /\ Len(buffer) = 3
    /\ IsLower(buffer[1]) /\ buffer[2] = 65 /\ IsLower(buffer[3])
    /\ result = DBJ2Hash(<<buffer[1] - 32, 65, buffer[3] - 32>>)

\* C7: the DBJ2 hash of str equals the DBJ2 hash of str with all zero bytes
\* removed; a zero byte does not end the iteration.
C7_ZeroByteElision ==
    called = "DBJ2Hash" => result = DBJ2Hash(RemoveZeros(buffer))

C7_Witness ==
    /\ called = "DBJ2Hash"
    /\ buffer = <<97, 0, 65>>
    /\ result = DBJ2Hash(<<97, 65>>)
    /\ result # DBJ2Hash(<<97>>)

\* C8: GetHashWithAlgorithm(str, a) is FNV1AHash(str) when a is exactly "fnv1a"
\* and DBJ2Hash(str) for every other a; the outcome is always a uint32.
C8_AlgorithmSelection ==
    called = "GetHashWithAlgorithm" =>
        /\ IsU32(result)
        /\ result = IF algorithm = "fnv1a" THEN FNV1AHash(buffer) ELSE DBJ2Hash(buffer)

C8_Witness ==
    /\ called = "GetHashWithAlgorithm"
    /\ algorithm = "unknown"
    /\ buffer # <<>>
    /\ result = DBJ2Hash(buffer)
    /\ result # FNV1AHash(buffer)

----------------------------------------------------------------------------
(* sync.RWMutex, as hashCacheMutex and collisionMutex use it               *)

\* RLock returns only while no writer holds or waits for the mutex
CanRLock(m) == m.w = 0
RLock(m, t) == [m EXCEPT !.r = @ \cup {t}]
RUnlock(m, t) == [m EXCEPT !.r = @ \ {t}]

\* Lock first excludes other writers and new readers, then waits for the
\* readers already in to leave
CanLockBegin(m) == m.w = 0
LockBegin(m, t) == [m EXCEPT !.w = t]
CanLockAcquireDespiteReaders(m, t) == m.w = t /\ ~m.held
CanLockAcquire(m, t) == m.w = t /\ ~m.held /\ m.r = {}
LockAcquire(m, t) == [m EXCEPT !.held = TRUE]
UnlockForgotten(m, t) == m
Unlock(m, t) == [m EXCEPT !.w = 0, !.held = FALSE]

HoldsWrite(m, t) == m.w = t /\ m.held
HoldsRead(m, t) == t \in m.r
Holds(m, t) == HoldsWrite(m, t) \/ HoldsRead(m, t)

----------------------------------------------------------------------------
(* Maps                                                                    *)

\* m[k] = v
MapPut(m, k, v) == [x \in DOMAIN m \cup {k} |-> IF x = k THEN v ELSE m[x]]

\* len(m)
MapLen(m) == Cardinality(DOMAIN m)

----------------------------------------------------------------------------
(* Goroutine steps.  Each changes pc[t] and leaves the pure-function       *)
(* variables alone.                                                        *)

GetHashPcs ==
    {"g_rlock", "g_lookup", "g_hit_runlock", "g_miss_runlock", "g_compute",
     "g_lock", "g_lock_wait", "g_store", "g_unlock",
     "d_lock", "d_lock_wait", "d_check", "d_log", "d_register", "d_unlock"}

DetectPcs == {"d_lock", "d_lock_wait", "d_check", "d_log", "d_register", "d_unlock"}

InGetHash(t) == pc[t] \in GetHashPcs

Goto(t, label) == pc' = [pc EXCEPT ![t] = label]

\* a caller invokes GetHash(str)  (obf.go:43)
GetHash_Call(t, str) ==
    /\ pc[t] = "idle"
    /\ Goto(t, "g_rlock")
    /\ s' = [s EXCEPT ![t] = str]
    /\ resolved' = resolved \cup {str}
    /\ UNCHANGED <<shared, alg, hash, ok, existingString, stats, ret, clean, prior>>

\* hashCacheMutex.RLock()  (obf.go:44)
GetHash_RLock(t) ==
    /\ pc[t] = "g_rlock"
    /\ CanRLock(hashCacheMutex)
    /\ hashCacheMutex' = RLock(hashCacheMutex, t)
    /\ Goto(t, "g_lookup")
    /\ UNCHANGED <<HashCache, collisionDetector, collisionMutex, debugLog>>
    /\ UNCHANGED <<s, alg, hash, ok, existingString, stats, ret, history>>

\* hash, ok := HashCache[s]  (obf.go:45)
CacheLookupAlwaysMiss(cache, str) == [ok |-> FALSE, hash |-> NoHash]
CacheLookup(cache, str) ==
    IF str \in DOMAIN cache THEN [ok |-> TRUE, hash |-> cache[str]]
    ELSE [ok |-> FALSE, hash |-> NoHash]

GetHash_Lookup(t) ==
    /\ pc[t] = "g_lookup"
    /\ LET found == CacheLookup(HashCache, s[t])
       IN  /\ ok' = [ok EXCEPT ![t] = found.ok]
           /\ hash' = [hash EXCEPT ![t] = found.hash]
           /\ Goto(t, IF found.ok THEN "g_hit_runlock" ELSE "g_miss_runlock")
    /\ UNCHANGED <<shared, s, alg, existingString, stats, ret, history>>

\* hashCacheMutex.RUnlock(); return hash  (obf.go:46-47)
GetHash_HitRUnlock(t) ==
    /\ pc[t] = "g_hit_runlock"
    /\ hashCacheMutex' = RUnlock(hashCacheMutex, t)
    /\ ret' = [ret EXCEPT ![t] = hash[t]]
    /\ Goto(t, "g_done")
    /\ UNCHANGED <<HashCache, collisionDetector, collisionMutex, debugLog>>
    /\ UNCHANGED <<s, alg, hash, ok, existingString, stats, history>>

\* hashCacheMutex.RUnlock()  (obf.go:49)
GetHash_MissRUnlock(t) ==
    /\ pc[t] = "g_miss_runlock"
    /\ hashCacheMutex' = RUnlock(hashCacheMutex, t)
    /\ Goto(t, "g_compute")
    /\ UNCHANGED <<HashCache, collisionDetector, collisionMutex, debugLog>>
    /\ UNCHANGED <<s, alg, hash, ok, existingString, stats, ret, history>>

\* hash := DBJ2HashStr(s)  (obf.go:51)
GetHash_Compute(t) ==
    /\ pc[t] = "g_compute"
    /\ hash' = [hash EXCEPT ![t] = DBJ2HashStr(s[t])]
    /\ Goto(t, "g_lock")
    /\ UNCHANGED <<shared, s, alg, ok, existingString, stats, ret, history>>

\* hashCacheMutex.Lock(), until other writers and new readers are excluded  (obf.go:54)
GetHash_LockBegin(t) ==
    /\ pc[t] = "g_lock"
    /\ CanLockBegin(hashCacheMutex)
    /\ hashCacheMutex' = LockBegin(hashCacheMutex, t)
    /\ Goto(t, "g_lock_wait")
    /\ UNCHANGED <<HashCache, collisionDetector, collisionMutex, debugLog>>
    /\ UNCHANGED <<s, alg, hash, ok, existingString, stats, ret, history>>

\* hashCacheMutex.Lock() returns  (obf.go:54)
GetHash_LockAcquire(t) ==
    /\ pc[t] = "g_lock_wait"
    /\ CanLockAcquire(hashCacheMutex, t)
    /\ hashCacheMutex' = LockAcquire(hashCacheMutex, t)
    /\ Goto(t, "g_store")
    /\ UNCHANGED <<HashCache, collisionDetector, collisionMutex, debugLog>>
    /\ UNCHANGED <<s, alg, hash, ok, existingString, stats, ret, history>>

\* HashCache[s] = hash  (obf.go:55)
StoredHashZero(str, h) == NoHash
StoredHash(str, h) == h

GetHash_Store(t) ==
    /\ pc[t] = "g_store"
    /\ HashCache' = MapPut(HashCache, s[t], StoredHash(s[t], hash[t]))
    /\ Goto(t, "g_unlock")
    /\ UNCHANGED <<hashCacheMutex, collisionDetector, collisionMutex, debugLog>>
    /\ UNCHANGED <<s, alg, hash, ok, existingString, stats, ret, history>>

\* hashCacheMutex.Unlock(); detectHashCollision(hash, s) is called  (obf.go:56, :59)
GetHash_Unlock(t) ==
    /\ pc[t] = "g_unlock"
    /\ hashCacheMutex' = Unlock(hashCacheMutex, t)
    /\ Goto(t, "d_lock")
    /\ UNCHANGED <<HashCache, collisionDetector, collisionMutex, debugLog>>
    /\ UNCHANGED <<s, alg, hash, ok, existingString, stats, ret, history>>

\* collisionMutex.Lock(), until other writers and new readers are excluded  (obf.go:66)
Detect_LockBegin(t) ==
    /\ pc[t] = "d_lock"
    /\ CanLockBegin(collisionMutex)
    /\ collisionMutex' = LockBegin(collisionMutex, t)
    /\ Goto(t, "d_lock_wait")
    /\ UNCHANGED <<HashCache, hashCacheMutex, collisionDetector, debugLog>>
    /\ UNCHANGED <<s, alg, hash, ok, existingString, stats, ret, history>>

\* collisionMutex.Lock() returns  (obf.go:66)
Detect_LockAcquire(t) ==
    /\ pc[t] = "d_lock_wait"
    /\ CanLockAcquire(collisionMutex, t)
    /\ collisionMutex' = LockAcquire(collisionMutex, t)
    /\ Goto(t, "d_check")
    /\ UNCHANGED <<HashCache, hashCacheMutex, collisionDetector, debugLog>>
    /\ UNCHANGED <<s, alg, hash, ok, existingString, stats, ret, history>>

\* if existingString, exists := collisionDetector[hash]; exists {
\*     if existingString != newString { ... } } else { ... }  (obf.go:69-70, :76)
DetectBranchNeverLog(detector, h, newString) ==
    IF h \in DOMAIN detector THEN "d_unlock" ELSE "d_register"
DetectBranchOverwrite(detector, h, newString) ==
    IF h \in DOMAIN detector
    THEN IF detector[h] # newString THEN "d_register" ELSE "d_unlock"
    ELSE "d_register"
DetectBranch(detector, h, newString) ==
    IF h \in DOMAIN detector
    THEN IF detector[h] # newString THEN "d_log" ELSE "d_unlock"
    ELSE "d_register"

Detect_Check(t) ==
    /\ pc[t] = "d_check"
    /\ existingString' = [existingString EXCEPT
           ![t] = IF hash[t] \in DOMAIN collisionDetector
                  THEN collisionDetector[hash[t]] ELSE <<>>]
    /\ Goto(t, DetectBranch(collisionDetector, hash[t], s[t]))
    /\ UNCHANGED <<shared, s, alg, hash, ok, stats, ret, history>>

\* the four debug.Printfln calls: one collision diagnostic  (obf.go:71-74)
Detect_Log(t) ==
    /\ pc[t] = "d_log"
    /\ debugLog' = [debugLog EXCEPT ![s[t]] = @ + 1]
    /\ Goto(t, "d_unlock")
    /\ UNCHANGED <<HashCache, hashCacheMutex, collisionDetector, collisionMutex>>
    /\ UNCHANGED <<s, alg, hash, ok, existingString, stats, ret, history>>

\* collisionDetector[hash] = newString  (obf.go:77)
Detect_Register(t) ==
    /\ pc[t] = "d_register"
    /\ collisionDetector' = MapPut(collisionDetector, hash[t], s[t])
    /\ Goto(t, "d_unlock")
    /\ UNCHANGED <<HashCache, hashCacheMutex, collisionMutex, debugLog>>
    /\ UNCHANGED <<s, alg, hash, ok, existingString, stats, ret, history>>

\* the deferred collisionMutex.Unlock(); return hash  (obf.go:67, :61)
Detect_Unlock(t) ==
    /\ pc[t] = "d_unlock"
    /\ collisionMutex' = Unlock(collisionMutex, t)
    /\ ret' = [ret EXCEPT ![t] = hash[t]]
    /\ Goto(t, "g_done")
    /\ UNCHANGED <<HashCache, hashCacheMutex, collisionDetector, debugLog>>
    /\ UNCHANGED <<s, alg, hash, ok, existingString, stats, history>>

\* GetHashWithAlgorithm(str, a), from call to return value  (obf.go:108-117)
GetHashWithAlgorithm_Caching(t, str, a) ==
    /\ pc[t] = "idle"
    /\ s' = [s EXCEPT ![t] = str]
    /\ alg' = [alg EXCEPT ![t] = a]
    /\ ret' = [ret EXCEPT ![t] = GetHashWithAlgorithm(str, a)]
    /\ HashCache' = MapPut(HashCache, str, GetHashWithAlgorithm(str, a))
    /\ Goto(t, "a_done")
    /\ UNCHANGED <<hashCacheMutex, collisionDetector, collisionMutex, debugLog>>
    /\ UNCHANGED <<hash, ok, existingString, stats, history>>
GetHashWithAlgorithm_Switch(t, str, a) ==
    /\ pc[t] = "idle"
    /\ s' = [s EXCEPT ![t] = str]
    /\ alg' = [alg EXCEPT ![t] = a]
    /\ ret' = [ret EXCEPT ![t] = GetHashWithAlgorithm(str, a)]
    /\ Goto(t, "a_done")
    /\ UNCHANGED <<shared, hash, ok, existingString, stats, history>>

\* a caller invokes ClearHashCache()  (obf.go:120)
Clear_Call(t) ==
    /\ pc[t] = "idle"
    /\ Goto(t, "c_lock")
    /\ UNCHANGED <<shared, s, alg, hash, ok, existingString, stats, ret, history>>

\* hashCacheMutex.Lock(), until other writers and new readers are excluded  (obf.go:121)
Clear_LockBegin(t) ==
    /\ pc[t] = "c_lock"
    /\ CanLockBegin(hashCacheMutex)
    /\ hashCacheMutex' = LockBegin(hashCacheMutex, t)
    /\ Goto(t, "c_lock_wait")
    /\ UNCHANGED <<HashCache, collisionDetector, collisionMutex, debugLog>>
    /\ UNCHANGED <<s, alg, hash, ok, existingString, stats, ret, history>>

\* hashCacheMutex.Lock() returns  (obf.go:121)
Clear_LockAcquire(t) ==
    /\ pc[t] = "c_lock_wait"
    /\ CanLockAcquire(hashCacheMutex, t)
    /\ hashCacheMutex' = LockAcquire(hashCacheMutex, t)
    /\ Goto(t, "c_clock")
    /\ UNCHANGED <<HashCache, collisionDetector, collisionMutex, debugLog>>
    /\ UNCHANGED <<s, alg, hash, ok, existingString, stats, ret, history>>

\* collisionMutex.Lock(), until other writers and new readers are excluded  (obf.go:124)
Clear_CLockBegin(t) ==
    /\ pc[t] = "c_clock"
    /\ CanLockBegin(collisionMutex)
    /\ collisionMutex' = LockBegin(collisionMutex, t)
    /\ Goto(t, "c_clock_wait")
    /\ UNCHANGED <<HashCache, hashCacheMutex, collisionDetector, debugLog>>
    /\ UNCHANGED <<s, alg, hash, ok, existingString, stats, ret, history>>

\* collisionMutex.Lock() returns  (obf.go:124)
Clear_CLockAcquire(t) ==
    /\ pc[t] = "c_clock_wait"
    /\ CanLockAcquire(collisionMutex, t)
    /\ collisionMutex' = LockAcquire(collisionMutex, t)
    /\ Goto(t, "c_reset_cache")
    /\ UNCHANGED <<HashCache, hashCacheMutex, collisionDetector, debugLog>>
    /\ UNCHANGED <<s, alg, hash, ok, existingString, stats, ret, history>>

\* HashCache = make(map[string]uint32)  (obf.go:127)
Clear_ResetCacheKeep(t) ==
    /\ pc[t] = "c_reset_cache"
    /\ Goto(t, "c_reset_detector")
    /\ UNCHANGED <<shared, s, alg, hash, ok, existingString, stats, ret, history>>
Clear_ResetCache(t) ==
    /\ pc[t] = "c_reset_cache"
    /\ HashCache' = EmptyMap
    /\ Goto(t, "c_reset_detector")
    /\ UNCHANGED <<hashCacheMutex, collisionDetector, collisionMutex, debugLog>>
    /\ UNCHANGED <<s, alg, hash, ok, existingString, stats, ret, history>>

\* collisionDetector = make(map[uint32]string)  (obf.go:128).  Both maps are
\* now reset: a new epoch begins and the history starts over.
Clear_ResetDetector(t) ==
    /\ pc[t] = "c_reset_detector"
    /\ collisionDetector' = EmptyMap
    /\ Goto(t, "c_cunlock")
    /\ debugLog' = [n \in Names |-> 0]
    /\ clean' = (\A u \in Threads : ~InGetHash(u))
    /\ prior' = prior \cup resolved
    /\ resolved' = {}
    /\ UNCHANGED <<HashCache, hashCacheMutex, collisionMutex>>
    /\ UNCHANGED <<s, alg, hash, ok, existingString, stats, ret>>

\* the deferred collisionMutex.Unlock(), which runs first  (obf.go:125)
Clear_CUnlock(t) ==
    /\ pc[t] = "c_cunlock"
    /\ collisionMutex' = Unlock(collisionMutex, t)
    /\ Goto(t, "c_unlock")
    /\ UNCHANGED <<HashCache, hashCacheMutex, collisionDetector, debugLog>>
    /\ UNCHANGED <<s, alg, hash, ok, existingString, stats, ret, history>>

\* the deferred hashCacheMutex.Unlock()  (obf.go:122)
Clear_Unlock(t) ==
    /\ pc[t] = "c_unlock"
    /\ hashCacheMutex' = Unlock(hashCacheMutex, t)
    /\ Goto(t, "c_done")
    /\ UNCHANGED <<HashCache, collisionDetector, collisionMutex, debugLog>>
    /\ UNCHANGED <<s, alg, hash, ok, existingString, stats, ret, history>>

\* a caller invokes GetHashCacheStats()  (obf.go:132)
Stats_Call(t) ==
    /\ pc[t] = "idle"
    /\ Goto(t, "s_rlock")
    /\ UNCHANGED <<shared, s, alg, hash, ok, existingString, stats, ret, history>>

\* hashCacheMutex.RLock()  (obf.go:133)
Stats_RLock(t) ==
    /\ pc[t] = "s_rlock"
    /\ CanRLock(hashCacheMutex)
    /\ hashCacheMutex' = RLock(hashCacheMutex, t)
    /\ Goto(t, "s_crlock")
    /\ UNCHANGED <<HashCache, collisionDetector, collisionMutex, debugLog>>
    /\ UNCHANGED <<s, alg, hash, ok, existingString, stats, ret, history>>

\* collisionMutex.RLock()  (obf.go:136)
Stats_CRLock(t) ==
    /\ pc[t] = "s_crlock"
    /\ CanRLock(collisionMutex)
    /\ collisionMutex' = RLock(collisionMutex, t)
    /\ Goto(t, "s_unique")
    /\ UNCHANGED <<HashCache, hashCacheMutex, collisionDetector, debugLog>>
    /\ UNCHANGED <<s, alg, hash, ok, existingString, stats, ret, history>>

\* collisions := 0; uniqueHashes := len(collisionDetector)  (obf.go:139-140)
Stats_ReadUnique(t) ==
    /\ pc[t] = "s_unique"
    /\ stats' = [stats EXCEPT ![t] =
           [uniqueHashes |-> MapLen(collisionDetector), totalEntries |-> 0, collisions |-> 0]]
    /\ Goto(t, "s_total")
    /\ UNCHANGED <<shared, s, alg, hash, ok, existingString, ret, history>>

\* if totalEntries > uniqueHashes { collisions = totalEntries - uniqueHashes }  (obf.go:143-145)
Collisions(totalEntries, uniqueHashes) ==
    IF totalEntries > uniqueHashes THEN totalEntries - uniqueHashes ELSE 0

\* the map GetHashCacheStats builds from the two maps  (obf.go:139-152)
StatsOf(cache, detector) ==
    [uniqueHashes |-> MapLen(detector),
     totalEntries |-> MapLen(cache),
     collisions   |-> Collisions(MapLen(cache), MapLen(detector))]

\* totalEntries := len(HashCache) and the collisions it gives  (obf.go:141-145)
Stats_ReadTotal(t) ==
    /\ pc[t] = "s_total"
    /\ stats' = [stats EXCEPT ![t] =
           [uniqueHashes |-> @.uniqueHashes,
            totalEntries |-> MapLen(HashCache),
            collisions   |-> Collisions(MapLen(HashCache), @.uniqueHashes)]]
    /\ Goto(t, "s_crunlock")
    /\ UNCHANGED <<shared, s, alg, hash, ok, existingString, ret, history>>

\* the deferred collisionMutex.RUnlock(), which runs first  (obf.go:137)
Stats_CRUnlock(t) ==
    /\ pc[t] = "s_crunlock"
    /\ collisionMutex' = RUnlock(collisionMutex, t)
    /\ Goto(t, "s_runlock")
    /\ UNCHANGED <<HashCache, hashCacheMutex, collisionDetector, debugLog>>
    /\ UNCHANGED <<s, alg, hash, ok, existingString, stats, ret, history>>

\* the deferred hashCacheMutex.RUnlock(); the map is returned  (obf.go:134, :147-152)
Stats_RUnlock(t) ==
    /\ pc[t] = "s_runlock"
    /\ hashCacheMutex' = RUnlock(hashCacheMutex, t)
    /\ Goto(t, "s_done")
    /\ UNCHANGED <<HashCache, collisionDetector, collisionMutex, debugLog>>
    /\ UNCHANGED <<s, alg, hash, ok, existingString, stats, ret, history>>

DonePcs == {"g_done", "a_done", "c_done", "s_done"}

\* the caller has its result; the goroutine's frame is gone
Return(t) ==
    /\ pc[t] \in DonePcs
    /\ Goto(t, "idle")
    /\ s' = [s EXCEPT ![t] = <<>>]
    /\ alg' = [alg EXCEPT ![t] = ""]
    /\ hash' = [hash EXCEPT ![t] = NoHash]
    /\ ok' = [ok EXCEPT ![t] = FALSE]
    /\ existingString' = [existingString EXCEPT ![t] = <<>>]
    /\ stats' = [stats EXCEPT ![t] = NoStats]
    /\ ret' = [ret EXCEPT ![t] = NoHash]
    /\ UNCHANGED <<shared, history>>

Init == ResolverInit /\ NoScenario /\ HashIdle /\ SyscallIdle

Next ==
    \/ \E t \in Threads, str \in Names : GetHash_Call(t, str) /\ UNCHANGED <<hvars, svars, todo>>
    \/ \E t \in Threads : GetHash_RLock(t) /\ UNCHANGED <<hvars, svars, todo>>
    \/ \E t \in Threads : GetHash_Lookup(t) /\ UNCHANGED <<hvars, svars, todo>>
    \/ \E t \in Threads : GetHash_HitRUnlock(t) /\ UNCHANGED <<hvars, svars, todo>>
    \/ \E t \in Threads : GetHash_MissRUnlock(t) /\ UNCHANGED <<hvars, svars, todo>>
    \/ \E t \in Threads : GetHash_Compute(t) /\ UNCHANGED <<hvars, svars, todo>>
    \/ \E t \in Threads : GetHash_LockBegin(t) /\ UNCHANGED <<hvars, svars, todo>>
    \/ \E t \in Threads : GetHash_LockAcquire(t) /\ UNCHANGED <<hvars, svars, todo>>
    \/ \E t \in Threads : GetHash_Store(t) /\ UNCHANGED <<hvars, svars, todo>>
    \/ \E t \in Threads : GetHash_Unlock(t) /\ UNCHANGED <<hvars, svars, todo>>
    \/ \E t \in Threads : Detect_LockBegin(t) /\ UNCHANGED <<hvars, svars, todo>>
    \/ \E t \in Threads : Detect_LockAcquire(t) /\ UNCHANGED <<hvars, svars, todo>>
    \/ \E t \in Threads : Detect_Check(t) /\ UNCHANGED <<hvars, svars, todo>>
    \/ \E t \in Threads : Detect_Log(t) /\ UNCHANGED <<hvars, svars, todo>>
    \/ \E t \in Threads : Detect_Register(t) /\ UNCHANGED <<hvars, svars, todo>>
    \/ \E t \in Threads : Detect_Unlock(t) /\ UNCHANGED <<hvars, svars, todo>>
    \/ \E t \in Threads, str \in Names, a \in Algs :
           GetHashWithAlgorithm_Switch(t, str, a) /\ UNCHANGED <<hvars, svars, todo>>
    \/ \E t \in Threads : Clear_Call(t) /\ UNCHANGED <<hvars, svars, todo>>
    \/ \E t \in Threads : Clear_LockBegin(t) /\ UNCHANGED <<hvars, svars, todo>>
    \/ \E t \in Threads : Clear_LockAcquire(t) /\ UNCHANGED <<hvars, svars, todo>>
    \/ \E t \in Threads : Clear_CLockBegin(t) /\ UNCHANGED <<hvars, svars, todo>>
    \/ \E t \in Threads : Clear_CLockAcquire(t) /\ UNCHANGED <<hvars, svars, todo>>
    \/ \E t \in Threads : Clear_ResetCache(t) /\ UNCHANGED <<hvars, svars, todo>>
    \/ \E t \in Threads : Clear_ResetDetector(t) /\ UNCHANGED <<hvars, svars, todo>>
    \/ \E t \in Threads : Clear_CUnlock(t) /\ UNCHANGED <<hvars, svars, todo>>
    \/ \E t \in Threads : Clear_Unlock(t) /\ UNCHANGED <<hvars, svars, todo>>
    \/ \E t \in Threads : Stats_Call(t) /\ UNCHANGED <<hvars, svars, todo>>
    \/ \E t \in Threads : Stats_RLock(t) /\ UNCHANGED <<hvars, svars, todo>>
    \/ \E t \in Threads : Stats_CRLock(t) /\ UNCHANGED <<hvars, svars, todo>>
    \/ \E t \in Threads : Stats_ReadUnique(t) /\ UNCHANGED <<hvars, svars, todo>>
    \/ \E t \in Threads : Stats_ReadTotal(t) /\ UNCHANGED <<hvars, svars, todo>>
    \/ \E t \in Threads : Stats_CRUnlock(t) /\ UNCHANGED <<hvars, svars, todo>>
    \/ \E t \in Threads : Stats_RUnlock(t) /\ UNCHANGED <<hvars, svars, todo>>
    \/ \E t \in Threads : Return(t) /\ UNCHANGED <<hvars, svars, todo>>

Spec == Init /\ [][Next]_vars

----------------------------------------------------------------------------
(* The collision scenario: from the empty state, two distinct strings with *)
(* the same hash are each resolved once, by one goroutine in either order  *)
(* or by two goroutines concurrently.                                      *)

CollidingPairs ==
    {p \in Names \X Names : p[1] # p[2] /\ DBJ2HashStr(p[1]) = DBJ2HashStr(p[2])}

\* the ways to hand the two calls to the goroutines
Scenarios ==
    {f \in [Threads -> {<<>>} \cup {<<p[1]>> : p \in CollidingPairs}
                              \cup {<<p[1], p[2]>> : p \in CollidingPairs}] :
        \E p \in CollidingPairs :
            \/ \E t \in Threads : f[t] = <<p[1], p[2]>> /\ \A u \in Threads \ {t} : f[u] = <<>>
            \/ \E t, u \in Threads :
                   /\ t # u /\ f[t] = <<p[1]>> /\ f[u] = <<p[2]>>
                   /\ \A v \in Threads \ {t, u} : f[v] = <<>>}

InitCollision ==
    /\ ResolverInit
    /\ HashIdle
    /\ SyscallIdle
    /\ todo \in Scenarios

\* the goroutine's next call of the scenario
Scenario_Call(t) ==
    /\ todo[t] # <<>>
    /\ GetHash_Call(t, Head(todo[t]))
    /\ todo' = [todo EXCEPT ![t] = Tail(@)]

NextCollision ==
    \/ \E t \in Threads : Scenario_Call(t) /\ UNCHANGED <<hvars, svars>>
    \/ \E t \in Threads : GetHash_RLock(t) /\ UNCHANGED <<hvars, svars, todo>>
    \/ \E t \in Threads : GetHash_Lookup(t) /\ UNCHANGED <<hvars, svars, todo>>
    \/ \E t \in Threads : GetHash_MissRUnlock(t) /\ UNCHANGED <<hvars, svars, todo>>
    \/ \E t \in Threads : GetHash_Compute(t) /\ UNCHANGED <<hvars, svars, todo>>
    \/ \E t \in Threads : GetHash_LockBegin(t) /\ UNCHANGED <<hvars, svars, todo>>
    \/ \E t \in Threads : GetHash_LockAcquire(t) /\ UNCHANGED <<hvars, svars, todo>>
    \/ \E t \in Threads : GetHash_Store(t) /\ UNCHANGED <<hvars, svars, todo>>
    \/ \E t \in Threads : GetHash_Unlock(t) /\ UNCHANGED <<hvars, svars, todo>>
    \/ \E t \in Threads : Detect_LockBegin(t) /\ UNCHANGED <<hvars, svars, todo>>
    \/ \E t \in Threads : Detect_LockAcquire(t) /\ UNCHANGED <<hvars, svars, todo>>
    \/ \E t \in Threads : Detect_Check(t) /\ UNCHANGED <<hvars, svars, todo>>
    \/ \E t \in Threads : Detect_Log(t) /\ UNCHANGED <<hvars, svars, todo>>
    \/ \E t \in Threads : Detect_Register(t) /\ UNCHANGED <<hvars, svars, todo>>
    \/ \E t \in Threads : Detect_Unlock(t) /\ UNCHANGED <<hvars, svars, todo>>
    \/ \E t \in Threads : Return(t) /\ UNCHANGED <<hvars, svars, todo>>

\* the Go scheduler runs every goroutine that can take a step
SpecCollision == InitCollision /\ [][NextCollision]_vars /\ WF_vars(NextCollision)

----------------------------------------------------------------------------
(* The resolver under fair scheduling.                                     *)

\* every step goroutine t can take once its call is made
Proceed(t) ==
    /\ \/ GetHash_RLock(t) \/ GetHash_Lookup(t) \/ GetHash_HitRUnlock(t)
       \/ GetHash_MissRUnlock(t) \/ GetHash_Compute(t) \/ GetHash_LockBegin(t)
       \/ GetHash_LockAcquire(t) \/ GetHash_Store(t) \/ GetHash_Unlock(t)
       \/ Detect_LockBegin(t) \/ Detect_LockAcquire(t) \/ Detect_Check(t)
       \/ Detect_Log(t) \/ Detect_Register(t) \/ Detect_Unlock(t)
       \/ Clear_LockBegin(t) \/ Clear_LockAcquire(t) \/ Clear_CLockBegin(t)
       \/ Clear_CLockAcquire(t) \/ Clear_ResetCache(t) \/ Clear_ResetDetector(t)
       \/ Clear_CUnlock(t) \/ Clear_Unlock(t)
       \/ Stats_RLock(t) \/ Stats_CRLock(t) \/ Stats_ReadUnique(t)
       \/ Stats_ReadTotal(t) \/ Stats_CRUnlock(t) \/ Stats_RUnlock(t)
       \/ Return(t)
    /\ UNCHANGED <<hvars, svars, todo>>

\* the names of the fair runs: the strings that share a hash with another,
\* so that every branch of detectHashCollision is taken
SharedHashNames == {p[1] : p \in CollidingPairs}

NextFair ==
    \/ \E t \in Threads, str \in SharedHashNames : GetHash_Call(t, str) /\ UNCHANGED <<hvars, svars, todo>>
    \/ \E t \in Threads : GetHash_RLock(t) /\ UNCHANGED <<hvars, svars, todo>>
    \/ \E t \in Threads : GetHash_Lookup(t) /\ UNCHANGED <<hvars, svars, todo>>
    \/ \E t \in Threads : GetHash_HitRUnlock(t) /\ UNCHANGED <<hvars, svars, todo>>
    \/ \E t \in Threads : GetHash_MissRUnlock(t) /\ UNCHANGED <<hvars, svars, todo>>
    \/ \E t \in Threads : GetHash_Compute(t) /\ UNCHANGED <<hvars, svars, todo>>
    \/ \E t \in Threads : GetHash_LockBegin(t) /\ UNCHANGED <<hvars, svars, todo>>
    \/ \E t \in Threads : GetHash_LockAcquire(t) /\ UNCHANGED <<hvars, svars, todo>>
    \/ \E t \in Threads : GetHash_Store(t) /\ UNCHANGED <<hvars, svars, todo>>
    \/ \E t \in Threads : GetHash_Unlock(t) /\ UNCHANGED <<hvars, svars, todo>>
    \/ \E t \in Threads : Detect_LockBegin(t) /\ UNCHANGED <<hvars, svars, todo>>
    \/ \E t \in Threads : Detect_LockAcquire(t) /\ UNCHANGED <<hvars, svars, todo>>
    \/ \E t \in Threads : Detect_Check(t) /\ UNCHANGED <<hvars, svars, todo>>
    \/ \E t \in Threads : Detect_Log(t) /\ UNCHANGED <<hvars, svars, todo>>
    \/ \E t \in Threads : Detect_Register(t) /\ UNCHANGED <<hvars, svars, todo>>
    \/ \E t \in Threads : Detect_Unlock(t) /\ UNCHANGED <<hvars, svars, todo>>
    \/ \E t \in Threads, str \in SharedHashNames, a \in Algs :
           GetHashWithAlgorithm_Switch(t, str, a) /\ UNCHANGED <<hvars, svars, todo>>
    \/ \E t \in Threads : Clear_Call(t) /\ UNCHANGED <<hvars, svars, todo>>
    \/ \E t \in Threads : Clear_LockBegin(t) /\ UNCHANGED <<hvars, svars, todo>>
    \/ \E t \in Threads : Clear_LockAcquire(t) /\ UNCHANGED <<hvars, svars, todo>>
    \/ \E t \in Threads : Clear_CLockBegin(t) /\ UNCHANGED <<hvars, svars, todo>>
    \/ \E t \in Threads : Clear_CLockAcquire(t) /\ UNCHANGED <<hvars, svars, todo>>
    \/ \E t \in Threads : Clear_ResetCache(t) /\ UNCHANGED <<hvars, svars, todo>>
    \/ \E t \in Threads : Clear_ResetDetector(t) /\ UNCHANGED <<hvars, svars, todo>>
    \/ \E t \in Threads : Clear_CUnlock(t) /\ UNCHANGED <<hvars, svars, todo>>
    \/ \E t \in Threads : Clear_Unlock(t) /\ UNCHANGED <<hvars, svars, todo>>
    \/ \E t \in Threads : Stats_Call(t) /\ UNCHANGED <<hvars, svars, todo>>
    \/ \E t \in Threads : Stats_RLock(t) /\ UNCHANGED <<hvars, svars, todo>>
    \/ \E t \in Threads : Stats_CRLock(t) /\ UNCHANGED <<hvars, svars, todo>>
    \/ \E t \in Threads : Stats_ReadUnique(t) /\ UNCHANGED <<hvars, svars, todo>>
    \/ \E t \in Threads : Stats_ReadTotal(t) /\ UNCHANGED <<hvars, svars, todo>>
    \/ \E t \in Threads : Stats_CRUnlock(t) /\ UNCHANGED <<hvars, svars, todo>>
    \/ \E t \in Threads : Stats_RUnlock(t) /\ UNCHANGED <<hvars, svars, todo>>
    \/ \E t \in Threads : Return(t) /\ UNCHANGED <<hvars, svars, todo>>

\* The same program under fair scheduling: a runnable goroutine is
\* eventually run, and sync.RWMutex hands the lock to a goroutine queued on
\* it (readers that arrive behind a writer are admitted when it unlocks, a
\* waiting writer bars new readers), so a goroutine whose step is possible
\* again and again eventually takes it.
SpecFair == Init /\ [][NextFair]_vars /\ \A t \in Threads : SF_vars(Proceed(t))

----------------------------------------------------------------------------
(* Properties of the resolver                                              *)

\* goroutine t takes a step
Steps(t) == pc'[t] # pc[t]

Quiescent == \A t \in Threads : ~InGetHash(t)

PairwiseDifferentHashes(S) ==
    \A a, b \in S : a # b => DBJ2HashStr(a) # DBJ2HashStr(b)

RECURSIVE SumLog(_, _)
SumLog(log, S) ==
    IF S = {} THEN 0
    ELSE LET n == CHOOSE x \in S : TRUE IN log[n] + SumLog(log, S \ {n})

\* the number of collision diagnostics emitted
Diagnostics == SumLog(debugLog, Names)

CacheAgreesWithHash == \A n \in DOMAIN HashCache : HashCache[n] = DBJ2Hash(n)

GetHashReturnsHash == \A t \in Threads : pc[t] = "g_done" => ret[t] = DBJ2Hash(s[t])

NoEntryOverwritten ==
    \A n \in DOMAIN HashCache \cap DOMAIN HashCache' : HashCache'[n] = HashCache[n]

\* C1: under any interleaving of GetHash, ClearHashCache and
\* GetHashCacheStats calls, every cache entry (s, v) has v = DBJ2Hash(s), no
\* entry is overwritten with a different value, and every GetHash(s) returns
\* DBJ2Hash(s), served from the cache or computed on a miss.
C1_CacheIsMemoization ==
    /\ [](CacheAgreesWithHash /\ GetHashReturnsHash)
    /\ [][NoEntryOverwritten]_vars

\* one goroutine was served "a" from the cache while the other computed it
C1_Witness ==
    \E t, u \in Threads :
        /\ pc[t] = "g_done" /\ ok[t] /\ ret[t] = DBJ2Hash(<<97>>) /\ s[t] = <<97>>
        /\ pc[u] = "d_unlock" /\ ~ok[u] /\ s[u] = <<97>>
        /\ <<97>> \in DOMAIN HashCache

ScenarioDone == \A t \in Threads : todo[t] = <<>> /\ pc[t] = "idle"

\* C4: from the empty state, two distinct strings with the same hash, each
\* resolved once (by one goroutine in either order, or concurrently): both
\* calls return the same identifier, both calls end, and exactly one
\* collision diagnostic has been emitted when they have ended.
C4_OneDiagnosticPerCollision ==
    /\ [](\A t \in Threads : pc[t] = "g_done" =>
            \A p \in CollidingPairs : ret[t] = DBJ2Hash(p[1]))
    /\ [](Diagnostics <= 1)
    /\ [](ScenarioDone => Diagnostics = 1)
    /\ <>ScenarioDone

\* both goroutines resolved concurrently and the one diagnostic names "a",
\* so "A" was registered first
C4_Witness ==
    /\ ScenarioDone
    /\ debugLog[<<97>>] = 1
    /\ Diagnostics = 1
    /\ DOMAIN HashCache = {<<97>>, <<65>>}
    /\ collisionDetector[DBJ2Hash(<<97>>)] = <<65>>

HitLeaves == UNCHANGED <<HashCache, collisionDetector, debugLog>>

C5_HitStep(t) ==
    /\ (pc[t] = "g_rlock" /\ Steps(t)) => HitLeaves
    /\ (pc[t] = "g_lookup" /\ Steps(t) /\ s[t] \in DOMAIN HashCache) =>
           /\ pc'[t] = "g_hit_runlock"
           /\ ok'[t]
           /\ hash'[t] = HashCache[s[t]]
           /\ HitLeaves
    /\ (pc[t] = "g_hit_runlock" /\ Steps(t)) =>
           /\ pc'[t] = "g_done"
           /\ ret'[t] = hash[t]
           /\ HitLeaves

\* C5: a GetHash(name) call that finds name in the cache returns the cached
\* value, leaves the cache, the collision registry and the emitted
\* diagnostics unchanged, and never reaches detectHashCollision.
C5_CacheHitChangesNothing ==
    /\ [][\A t \in Threads : C5_HitStep(t)]_vars
    /\ [](\A t \in Threads : ok[t] => pc[t] \in {"g_hit_runlock", "g_done"})

C5_Witness ==
    \E t \in Threads :
        /\ pc[t] = "g_done" /\ ok[t]
        /\ s[t] \in DOMAIN HashCache
        /\ ret[t] = HashCache[s[t]]
        /\ s[t] \in prior

C9_Step(t) ==
    (Steps(t) /\ (pc'[t] = "a_done" \/ pc[t] = "a_done")) => UNCHANGED shared

\* C9: GetHashWithAlgorithm(s, a) leaves the cache, the collision registry,
\* the diagnostics and both mutexes unchanged; a string is cached only by
\* GetHash, so s is still a cache miss afterwards.
C9_AlgorithmPathNotCached ==
    /\ [][\A t \in Threads : C9_Step(t)]_vars
    /\ [](clean => DOMAIN HashCache \subseteq resolved)

\* GetHashWithAlgorithm("b", ...) has returned while only "a" is cached
C9_Witness ==
    \E t \in Threads :
        /\ pc[t] = "a_done" /\ s[t] = <<98>> /\ alg[t] = "fnv1a"
        /\ ret[t] = FNV1AHash(<<98>>)
        /\ clean
        /\ DOMAIN HashCache = {<<97>>}
        /\ StatsOf(HashCache, collisionDetector).totalEntries = 1

ExpectedStats(k) == [uniqueHashes |-> k, totalEntries |-> k, collisions |-> 0]

\* a reset has emptied one map and not yet the other (it holds both locks)
ResetUnderWay == \E t \in Threads : pc[t] = "c_reset_detector"

\* C10: in an epoch that began empty, once the GetHash calls for k names
\* with pairwise different hashes have all ended, GetHashCacheStats reports
\* total_entries = k, unique_hashes = k, collisions = 0.  Right after
\* ClearHashCache k is 0 and all three are 0 (so any lookup misses), and a
\* name resolved again gives 1, 1, 0.
C10_StatsAccuracy ==
    (clean /\ Quiescent /\ ~ResetUnderWay /\ PairwiseDifferentHashes(resolved)) =>
        /\ StatsOf(HashCache, collisionDetector) = ExpectedStats(Cardinality(resolved))
        /\ DOMAIN HashCache = resolved
        /\ \A t \in Threads :
               pc[t] = "s_crunlock" => stats[t] = ExpectedStats(Cardinality(resolved))

\* two names were resolved, the cache was cleared, and one of them has been
\* resolved again: a goroutine's GetHashCacheStats holds 1, 1, 0
C10_Witness ==
    /\ clean /\ Quiescent
    /\ prior = {<<97>>, <<98>>}
    /\ resolved = {<<98>>}
    /\ \E t \in Threads : pc[t] = "s_crunlock" /\ stats[t] = ExpectedStats(1)
    /\ \E t \in Threads : pc[t] = "g_done" /\ ~ok[t] /\ s[t] = <<98>>

\* where ClearHashCache and GetHashCacheStats sit between taking their
\* second lock and releasing it
ClearBothPcs == {"c_reset_cache", "c_reset_detector", "c_cunlock"}
StatsBothPcs == {"s_unique", "s_total", "s_crunlock"}

\* the next step of a goroutine here reads or writes one of the two maps
MapAccessPcs ==
    {"g_lookup", "g_store", "d_check", "d_register", "s_unique", "s_total",
     "c_reset_cache", "c_reset_detector"}

\* C11: ClearHashCache empties both maps as one atomic step with respect to
\* every other operation: while it is between its two locks' releases no
\* other goroutine holds a lock or is about to touch a map, so none sees one
\* map emptied and the other not; GetHashCacheStats reads both sizes while
\* neither map can change, so its snapshot is that of one instant.
C11_ResetIsAtomic ==
    /\ [](\A t \in Threads : pc[t] \in ClearBothPcs =>
            /\ HoldsWrite(hashCacheMutex, t) /\ HoldsWrite(collisionMutex, t)
            /\ \A u \in Threads \ {t} :
                   /\ ~Holds(hashCacheMutex, u) /\ ~Holds(collisionMutex, u)
                   /\ pc[u] \notin MapAccessPcs)
    /\ [][(\E t \in Threads : pc[t] \in {"s_unique", "s_total"})
              => UNCHANGED <<HashCache, collisionDetector>>]_vars
    /\ [](\A t \in Threads : pc[t] = "s_crunlock" =>
              stats[t] = StatsOf(HashCache, collisionDetector))

\* the cache is emptied and the registry is not yet, while a GetHash that
\* stored its entry before the reset waits to enter detectHashCollision
C11_Witness ==
    \E t \in Threads, u \in Threads :
        /\ pc[t] = "c_reset_detector"
        /\ HashCache = EmptyMap /\ collisionDetector # EmptyMap
        /\ pc[u] = "d_lock"

\* C15: whenever a goroutine is emitting the collision diagnostic it holds
\* neither the cache lock nor the collision-registry lock.
C15_NoLockWhileLogging ==
    \A t \in Threads : pc[t] = "d_log" =>
        ~Holds(hashCacheMutex, t) /\ ~Holds(collisionMutex, t)

\* C16 (every operation): no goroutine ever holds the cache lock and the
\* collision-registry lock at the same time.
C16_NeverBothLocks ==
    \A t \in Threads : ~(Holds(hashCacheMutex, t) /\ Holds(collisionMutex, t))

\* C16: GetHash holds at most one lock at a time and has released the cache
\* lock before it asks for the collision lock; ClearHashCache (writing) and
\* GetHashCacheStats (reading) hold both at once, and every goroutine that
\* asks for the cache lock holds nothing of the collision lock.
C16_LockNesting ==
    \A t \in Threads :
        /\ (Holds(hashCacheMutex, t) /\ Holds(collisionMutex, t))
               <=> pc[t] \in ClearBothPcs \cup StatsBothPcs
        /\ pc[t] \in DetectPcs =>
               ~Holds(hashCacheMutex, t) /\ hashCacheMutex.w # t
        /\ pc[t] \in {"g_rlock", "g_lock", "g_lock_wait", "c_lock", "c_lock_wait", "s_rlock"} =>
               ~Holds(collisionMutex, t) /\ collisionMutex.w # t

\* GetHashCacheStats holds both read locks while a ClearHashCache waits
C16_Witness ==
    \E t \in Threads, u \in Threads :
        /\ pc[t] = "s_total"
        /\ HoldsRead(hashCacheMutex, t) /\ HoldsRead(collisionMutex, t)
        /\ pc[u] = "c_lock_wait"

\* the step that resets the registry
IsReset == \E t \in Threads : pc[t] = "c_reset_detector" /\ pc'[t] = "c_cunlock"

\* C18: under any interleaving, every registry entry (h, s) has
\* DBJ2Hash(s) = h, the registry holds one string per identifier, and
\* between two resets an identifier's string is never replaced or removed.
C18_RegistrySound ==
    /\ [](\A h \in DOMAIN collisionDetector :
              /\ collisionDetector[h] \in Names
              /\ DBJ2HashStr(collisionDetector[h]) = h)
    /\ [][IsReset \/ \A h \in DOMAIN collisionDetector :
              /\ h \in DOMAIN collisionDetector'
              /\ collisionDetector'[h] = collisionDetector[h]]_vars

\* a second string with a registered identifier has been reported and the
\* registry still holds the first
C18_Witness ==
    \E t \in Threads :
        /\ pc[t] = "d_unlock"
        /\ existingString[t] \in Names /\ existingString[t] # s[t]
        /\ debugLog[s[t]] >= 1
        /\ collisionDetector[hash[t]] = existingString[t]

ClearPcs ==
    {"c_lock", "c_lock_wait", "c_clock", "c_clock_wait",
     "c_reset_cache", "c_reset_detector", "c_cunlock", "c_unlock"}

NoCallInProgress == \A t \in Threads : pc[t] \notin GetHashPcs \cup ClearPcs

\* C19: whenever no GetHash or ClearHashCache call is in progress, the
\* identifiers in the registry are exactly the hash values of the names in
\* the cache, so unique_hashes <= total_entries and
\* collisions = total_entries - unique_hashes.
C19_RegistryMirrorsCache ==
    NoCallInProgress =>
        /\ DOMAIN collisionDetector = {HashCache[n] : n \in DOMAIN HashCache}
        /\ MapLen(collisionDetector) <= MapLen(HashCache)
        /\ StatsOf(HashCache, collisionDetector).collisions
               = MapLen(HashCache) - MapLen(collisionDetector)

\* C20: between two resets the diagnostic for a given name is emitted at
\* most once, however many goroutines resolve that name.
C20_DiagnosticAtMostOnce == \A n \in Names : debugLog[n] <= 1

\* goroutine t is inside a call
InCall(t) == pc[t] \notin DonePcs \cup {"idle"}

\* goroutine t holds, and waits for, nothing
Released(t) ==
    /\ ~Holds(hashCacheMutex, t) /\ hashCacheMutex.w # t
    /\ ~Holds(collisionMutex, t) /\ collisionMutex.w # t

\* C12: with goroutines calling GetHash, GetHashWithAlgorithm,
\* ClearHashCache and GetHashCacheStats in any combination, no reachable
\* state is a deadlock on the two locks (whenever calls are in progress one
\* of them can take a step), and under fair scheduling every call eventually
\* returns, with both locks released.
C12_NoDeadlockAndTermination ==
    /\ []((\E t \in Threads : InCall(t)) =>
              \E t \in Threads : InCall(t) /\ ENABLED Proceed(t))
    /\ [](\A t \in Threads : ~InCall(t) => Released(t))
    /\ \A t \in Threads : InCall(t) ~> (pc[t] \in DonePcs)

\* ClearHashCache holds the cache lock and waits for the collision lock,
\* which a GetHash holds inside detectHashCollision
C12_Witness ==
    \E t \in Threads, u \in Threads :
        /\ pc[t] = "c_clock" /\ HoldsWrite(hashCacheMutex, t)
        /\ ~ENABLED Proceed(t)
        /\ pc[u] = "d_check" /\ HoldsWrite(collisionMutex, u)

----------------------------------------------------------------------------
(* do_syscall from entry to return                                         *)

NextSys ==
    \/ Save_Rsi /\ UNCHANGED <<hvars, rvars>>
    \/ Save_Rdi /\ UNCHANGED <<hvars, rvars>>
    \/ Mov_Eax_Ecx /\ UNCHANGED <<hvars, rvars>>
    \/ Mov_Rcx_Rdx /\ UNCHANGED <<hvars, rvars>>
    \/ Mov_R10_R8 /\ UNCHANGED <<hvars, rvars>>
    \/ Mov_Rdx_R9 /\ UNCHANGED <<hvars, rvars>>
    \/ Load_R8 /\ UNCHANGED <<hvars, rvars>>
    \/ Load_R9 /\ UNCHANGED <<hvars, rvars>>
    \/ Sub_Rcx_4 /\ UNCHANGED <<hvars, rvars>>
    \/ Jle_Skip /\ UNCHANGED <<hvars, rvars>>
    \/ Lea_Rsi /\ UNCHANGED <<hvars, rvars>>
    \/ Lea_Rdi /\ UNCHANGED <<hvars, rvars>>
    \/ Rep_Movsq_Copy /\ UNCHANGED <<hvars, rvars>>
    \/ Rep_Movsq_End /\ UNCHANGED <<hvars, rvars>>
    \/ Syscall /\ UNCHANGED <<hvars, rvars>>
    \/ Restore_Rsi /\ UNCHANGED <<hvars, rvars>>
    \/ Restore_Rdi /\ UNCHANGED <<hvars, rvars>>
    \/ Ret /\ UNCHANGED <<hvars, rvars>>

InitSys == SyscallEntry /\ HashIdle /\ ResolverInit /\ NoScenario

SpecSys == InitSys /\ [][NextSys]_vars

\* the argument count N, when the count register holds the number of
\* argument words passed
ArgCount == Len(argw)
CountIsArgCount == entry.rdx = W(ArgCount)

\* a(i), counting from 0
Arg(i) == argw[i + 1]

\* C3: when the syscall instruction executes, eax = id, r10 = a0, rdx = a1,
\* r8 = a2, r9 = a3 (each that exists), and for N > 4 the stack word at
\* rsp + 0x28 + 8*i holds a(4+i) for every 0 <= i < N - 4.
C3_ArgumentsMarshalled ==
    (ip = "syscall" /\ CountIsArgCount) =>
        /\ regs.rax = Lo32(entry.rcx)
        /\ ArgCount >= 1 => regs.r10 = Arg(0)
        /\ ArgCount >= 2 => regs.rdx = Arg(1)
        /\ ArgCount >= 3 => regs.r8 = Arg(2)
        /\ ArgCount >= 4 => regs.r9 = Arg(3)
        /\ \A i \in 0..(ArgCount - 5) : mem[Disp(regs.rsp, 40 + 8 * i)] = Arg(4 + i)
        /\ regs.rsp = entry.rsp

\* six arguments, the copy has overwritten a2's and a3's slots with the
\* different words a4 and a5, and r8, r9 still hold a2 and a3
C3_Witness ==
    /\ ip = "syscall"
    /\ ArgCount = 6
    /\ entry.rcx # Lo32(entry.rcx)
    /\ Arg(2) # Arg(4) /\ Arg(3) # Arg(5)
    /\ regs.r8 = Arg(2) /\ regs.r9 = Arg(3)
    /\ mem[Disp(regs.rsp, 40)] = Arg(4) /\ mem[Disp(regs.rsp, 48)] = Arg(5)

\* the instructions after the kernel transition
AfterTransition == ip \in {"restore_rsi", "restore_rdi", "ret"}

\* every register but rsi, rdi and, at ret, rsp, and all of memory, are
\* as they were
WritesOnlyRsiRdi ==
    /\ mem' = mem
    /\ \A r \in DOMAIN regs \ {"rsi", "rdi", "rsp"} : regs'[r] = regs[r]
    /\ (ip # "ret") => regs'.rsp = regs.rsp

\* C13: for every argument count, do_syscall returns with rsi and rdi equal
\* to their values at entry and never moves the stack pointer (so the caller
\* finds it just past the return address); the instructions after the kernel
\* transition write only rsi and rdi, so rax is returned as the kernel left
\* it.  The kernel leaves user stack memory untouched.
C13_CalleeSavedRestored ==
    /\ [](ip # "returned" => regs.rsp = entry.rsp)
    /\ [](ip = "returned" =>
            /\ regs.rsi = entry.rsi
            /\ regs.rdi = entry.rdi
            /\ regs.rsp = Disp(entry.rsp, 8)
            /\ regs.rax \in KernelResults)
    /\ [][AfterTransition => WritesOnlyRsiRdi]_vars

\* returned from a call with six arguments: the copy ran, with rsi and rdi
\* as its pointers, and the kernel's status is in rax
C13_Witness ==
    /\ ip = "returned"
    /\ ArgCount = 6
    /\ Arg(2) # Arg(4)
    /\ mem[Slot(5)] = Arg(4)
    /\ regs.rsi = CallerRsi /\ regs.rdi = CallerRdi
    /\ regs.rax = <<0, 0, 49152, 5>>

\* the count, as a signed 64-bit word, is at most 4
CountAtMost4 == Sign64(entry.rdx) \/ entry.rdx \in {W(n) : n \in 0..4}

\* the stack words at and above rsp
UpperSlots == 0 .. (MaxArgs + 4)

\* C17: when the count is at most 4 (0 and, as a signed word, negative
\* included) the block copy is not executed and no stack word at or above
\* rsp is written before the kernel transition; when the count N is above 4
\* exactly N - 4 words are copied, never more.
C17_CopyOnlyAboveFour ==
    /\ CountAtMost4 =>
         /\ ip \notin {"lea_rsi", "lea_rdi", "rep_movsq"}
         /\ \A k \in UpperSlots : mem[Slot(k)] = EntryStack(argw)[Slot(k)]
    /\ (~CountAtMost4 /\ ip = "syscall") =>
         /\ IsZero64(regs.rcx)
         /\ regs.rdi = Disp(entry.rsp, 40 + 8 * (ArgCount - 4))
         /\ regs.rsi = Disp(entry.rsp, 56 + 8 * (ArgCount - 4))
         /\ \A k \in UpperSlots :
                mem[Slot(k)] = IF k \in 5 .. ArgCount
                               THEN EntryStack(argw)[Slot(k + 2)]
                               ELSE EntryStack(argw)[Slot(k)]

\* the count is -2^63: the subtraction overflows, the jump is still taken
C17_Witness ==
    /\ ip = "syscall"
    /\ entry.rdx = <<32768, 0, 0, 0>>
    /\ flags.of /\ ~flags.sf /\ ~flags.zf
    /\ \A k \in UpperSlots : mem[Slot(k)] = EntryStack(argw)[Slot(k)]

----------------------------------------------------------------------------
(* FNV-1a against its definition                                           *)

\* the bytes DBJ2Hash folds into its accumulator for buf, in order: the
\* non-zero bytes, each as DBJ2Hash's fold leaves it
RECURSIVE DBJ2Stream(_)
DBJ2Stream(buf) ==
    IF buf = <<>> THEN <<>>
    ELSE IF SkipByte(Head(buf)) THEN DBJ2Stream(Tail(buf))
    ELSE <<FoldByte(Head(buf))>> \o DBJ2Stream(Tail(buf))

\* h * 16777619 mod 2^32, with 16777619 = 2^24 + 2^8 + 147
RefShl8(h) ==
    LET lo == h[2] * 256
    IN  <<(h[1] * 256 + (lo \div Limb)) % Limb, lo % Limb>>
RefMul147(h) ==
    LET lo == h[2] * 147
    IN  <<(h[1] * 147 + (lo \div Limb)) % Limb, lo % Limb>>
RefMulFNVPrime(h) ==
    Add32(Add32(RefShl8(RefShl8(RefShl8(h))), RefShl8(h)), RefMul147(h))

\* x xor y for naturals, bit by bit from the top
RECURSIVE RefXorBits(_, _, _)
RefXorBits(x, y, bit) ==
    IF bit = 0 THEN 0
    ELSE (IF ((x \div bit) % 2) # ((y \div bit) % 2) THEN bit ELSE 0)
             + RefXorBits(x, y, bit \div 2)

\* 32-bit FNV-1a of a byte stream: start 2166136261, xor then multiply
RECURSIVE RefFNV1A(_)
RefFNV1A(stream) ==
    IF stream = <<>> THEN <<33052, 40389>>
    ELSE LET h == RefFNV1A(SubSeq(stream, 1, Len(stream) - 1))
             b == stream[Len(stream)]
         IN  RefMulFNVPrime(<<h[1], RefXorBits(h[2], b, 2^15)>>)

\* C14: FNV1AHash returns 32-bit FNV-1a (start 2166136261, per byte
\* h = ((h XOR byte) * 16777619) mod 2^32) of exactly the byte stream that
\* DBJ2Hash folds in for the same input.
C14_FNV1AOverSameStream ==
    called = "FNV1AHash" => result = RefFNV1A(DBJ2Stream(buffer))

\* "a", a zero byte and "{": the stream is "A", "[", not the input
C14_Witness ==
    /\ called = "FNV1AHash"
    /\ buffer = <<97, 0, 123>>
    /\ DBJ2Stream(buffer) = <<65, 91>>
    /\ result = RefFNV1A(<<65, 91>>)
    /\ result # RefFNV1A(<<97, 123>>)

====
